---- MODULE Spec2Model ----
(***************************************************************************)
(* SmartNotes: the note pipeline of the browser application.               *)
(*                                                                         *)
(* The repository holds two builds of the App component: the earlier one   *)
(* (src/types.ts, store key smart_notes_history, 50 records) and the later *)
(* one (src/App.tsx, store key smart_notes_v2, 30 records).  The variable  *)
(* version says which build is running; it never changes.  Both builds     *)
(* call processLectureMedia of src/services/geminiService.ts.              *)
(*                                                                         *)
(* A handler of a React function component reads the state of the render   *)
(* that created it.  A handler that runs later (a FileReader callback, the *)
(* continuation of an await, a MediaRecorder event) therefore carries the  *)
(* history of the render in which the user triggered it: every pending     *)
(* operation below records that history as its field hist.                 *)
(***************************************************************************)
EXTENDS Integers, Sequences, FiniteSets, TLC

VARIABLES
    version,           \* 1: src/types.ts App, 2: src/App.tsx App
    phase,             \* "mounting" (load effect not run), "running", "crashed"
    view,              \* PageView
    status,            \* AppStatus
    notes,             \* <<>> for null, <<record>> otherwise
    history,           \* the history state: a JSON value [tag, items]
    errorMessage,      \* "null" or the message
    isRecording,       \* the isRecording state
    storage,           \* localStorage under the build's key: a text [tag, items]
    mediaRecorderRef,  \* 0 for null, else an index into recorders
    recorders,         \* every MediaRecorder created: [state, stopEvent, hist, handed]
    audioChunksRef,    \* the array of the ref: the recorders whose data was pushed
    micRequests,       \* getUserMedia calls not yet settled: [hist]
    jobs,              \* processFile calls not yet settled: [stage, hist]
    nextId,            \* ids handed out by crypto.randomUUID so far
    now,               \* the greatest value Date.now() has returned so far
    used,              \* the bounded user actions taken so far
    lastOp,            \* the store call or the failure of the last step, Op("none", 0) if none
    reply,             \* one call of processLectureMedia: what the backend answers
    outcome,           \* that call: [stage, ok, note], the record it returns
    pdfNotes,          \* one call of generatePDF: the record, as the lines its texts wrap to
    doc,               \* the blocks drawn so far: [section, item, page, y, height]
    pageCount,         \* the pages of the document
    cursorY,           \* generatePDF's cursorY
    pc,                \* where generatePDF is: [at, k]
    file,              \* one call of processFile: the blob [bytes, type]
    reader,            \* its FileReader: [state, result]
    handed,            \* what it calls processLectureMedia with: [stage, base64, mimeType]
    quiz,              \* one QuizComponent: its quiz prop, items [options, answer]
    currentIdx,        \* its currentIdx state
    score,             \* its score state
    selected,          \* its selected state: <<>> for null, <<option>> otherwise
    showResult,        \* its showResult state
    pressed,           \* the selections Next was pressed with since the quiz (re)started
    timeLeft,          \* one PomodoroTimer: its timeLeft state
    isActive,          \* its isActive state
    mode,              \* its mode state
    interval,          \* whether the interval of its effect is installed
    lastEvent          \* what its last step was: "none", "tick", "finish", "toggle", "reset"

\* the state of the App component
appVars == <<version, phase, view, status, notes, history, errorMessage, isRecording,
             storage, mediaRecorderRef, recorders, audioChunksRef, micRequests, jobs, nextId, now,
             used, lastOp>>

\* one call of processLectureMedia looked at on its own
analyzeVars == <<reply, outcome>>

\* one call of generatePDF looked at on its own
pdfVars == <<pdfNotes, doc, pageCount, cursorY, pc>>

\* one call of processFile looked at on its own, up to the analysis call
encodeVars == <<file, reader, handed>>

\* one QuizComponent looked at on its own
quizVars == <<quiz, currentIdx, score, selected, showResult, pressed>>

\* one PomodoroTimer looked at on its own
timerVars == <<timeLeft, isActive, mode, interval, lastEvent>>

\* the state of the functions and components that are looked at on their own
auxVars == <<analyzeVars, pdfVars, encodeVars, quizVars, timerVars>>

vars == <<appVars, auxVars>>

----------------------------------------------------------------------------
(* Bounds of the model *)

\* user actions that start a capture (Record, the file input) or act on the
\* store (delete, clear, open a card)
MaxActions == 2
\* store calls of the store specification
MaxCalls == 3
\* ids of the records the store specification inserts
MaxStoreId == 2
\* quiz items of a body
MaxQuiz == 2
\* citation chunks of an answer
MaxChunks == 2
\* lines of a long summary
MaxSummary == 45
\* key concepts of a record, and lines of a long one
MaxConcepts == 2
MaxConceptLines == 20
\* sources of a record
MaxSources == 2
\* lines of a long transcription
MaxTranscript == 51
\* bytes of a blob
MaxBytes == 4

(* Program constants *)

\* [note, ...history].slice(0, 50)
CapV1 == 50
\* [note, ...history].slice(0, 30)
CapV2 == 30

\* useState(25 * 60), and the duration of a break, 5 * 60
FocusSeconds == 1500

BreakSeconds == 300

Cap(v) == IF v = 1 THEN CapV1 ELSE CapV2

Min(a, b) == IF a < b THEN a ELSE b

Take(s, n) == SubSeq(s, 1, Min(n, Len(s)))

----------------------------------------------------------------------------
(* Records and JSON *)

\* the fields the response schema requires of the backend's body
RequiredFields ==
    {"title", "summary", "keyConcepts", "actionItems", "transcription", "quiz", "flashcards"}

\* a record saved by an earlier session, i-th from the head
\* (the session starts at time 0: the record was made i ticks before)
OldNote(i) == [id |-> 0 - i, timestamp |-> 0 - i, fields |-> RequiredFields]

OldNotes(k) == [i \in 1..k |-> OldNote(i)]

\* JavaScript values held by the history state: an array of records, or the
\* object a payload such as {} parses to
Arr(s) == [tag |-> "array", items |-> s]

Obj == [tag |-> "object", items |-> <<>>]

\* texts: the persisted blob and the backend's body
Absent == [tag |-> "absent", items |-> <<>>]

Garbage == [tag |-> "garbage", items |-> <<>>]

\* JSON.stringify of an array of records: one <<id, timestamp, fields>> entry
\* per record
JSONstringify(s) ==
    [tag |-> "json-array",
     items |-> [i \in 1..Len(s) |-> <<s[i].id, s[i].timestamp, s[i].fields>>]]

ObjText == [tag |-> "json-object", items |-> <<>>]

\* JSON.parse: throws on a text that is not JSON
ParseThrows(t) == t.tag \notin {"json-array", "json-object"}

JSONparse(t) ==
    IF t.tag = "json-array"
    THEN Arr([i \in 1..Len(t.items) |->
                 [id |-> t.items[i][1], timestamp |-> t.items[i][2], fields |-> t.items[i][3]]])
    ELSE Obj

IsArray(h) == h.tag = "array"


----------------------------------------------------------------------------
(* The analysis client: src/services/geminiService.ts *)

\* the backend's answers: the call rejects, or resolves with a body text
EmptyBody == [tag |-> "empty", fields |-> {}]

GarbageBody == [tag |-> "garbage", fields |-> {}]

JsonBody(F) == [tag |-> "json", fields |-> F]

\* no body, a text that is not JSON, an object with every required field, and
\* the object {} (which has none of them)
Bodies == {EmptyBody, GarbageBody, JsonBody(RequiredFields), JsonBody({})}

Responses == {[kind |-> "error", text |-> EmptyBody]} \cup {[kind |-> "ok", text |-> b] : b \in Bodies}

\* response.text || "{}"
resultText(resp) == IF resp.text.tag = "empty" THEN JsonBody({}) ELSE resp.text

\* Date.now() against the value it returned last: the first reading of the
\* session is later than the session's start (the request to the backend lies
\* between), a later reading is the same millisecond or a later one
Ticks(t) == IF t = 0 THEN {1} ELSE {0, 1}

AnalysisMessage == "Failed to generate smart notes. Ensure file content is readable."

\* processLectureMedia with a catch block that answers a backend error with an
\* empty record instead of rethrowing
processLectureMedia_swallow(resp, id, t) ==
    IF resp.kind = "ok" /\ resultText(resp).tag # "json"
    THEN [ok |-> FALSE, note |-> <<>>, message |-> AnalysisMessage]
    ELSE [ok |-> TRUE,
          note |-> <<[id |-> id, timestamp |-> t,
                      fields |-> IF resp.kind = "error" THEN {} ELSE resultText(resp).fields]>>,
          message |-> "null"]

\* processLectureMedia giving every record the same id instead of a fresh one
processLectureMedia_fixedId(resp, id, t) ==
    IF resp.kind = "error" \/ resultText(resp).tag # "json"
    THEN [ok |-> FALSE, note |-> <<>>, message |-> AnalysisMessage]
    ELSE [ok |-> TRUE, note |-> <<[id |-> 1, timestamp |-> t, fields |-> resultText(resp).fields]>>,
          message |-> "null"]

\* what the call gives for a response, with id the value of crypto.randomUUID()
\* and t the value of Date.now():
\* the try block throws when generateContent rejects or JSON.parse throws, and
\* the catch block rethrows; otherwise the parsed body is spread into the record
processLectureMedia(resp, id, t) ==
    IF resp.kind = "error" \/ resultText(resp).tag # "json"
    THEN [ok |-> FALSE, note |-> <<>>, message |-> AnalysisMessage]
    ELSE [ok |-> TRUE,
          note |-> <<[id |-> id, timestamp |-> t, fields |-> resultText(resp).fields]>>,
          message |-> "null"]

\* a property the backend left out
Undefined == "<undefined>"

\* x || fallback takes the fallback for undefined and for the empty string
Falsy(x) == x \in {Undefined, ""}

GenericLabel == "External Resource"

\* a citation chunk: its web metadata is absent (<<>>) or <<[title, uri]>>,
\* either of which the backend may leave out
Web(title, uri) == [web |-> <<[title |-> title, uri |-> uri]>>]

NoWeb == [web |-> <<>>]

Chunks == {NoWeb} \cup {Web(t, u) : t \in {Undefined, "Paper"}, u \in {Undefined, "https://a.example/p"}}

\* response.candidates?.[0]?.groundingMetadata?.groundingChunks || []
groundingChunks(g) == IF g.present THEN g.list ELSE <<>>

\* groundingChunks.filter(chunk => chunk.web).map(chunk => ({title, uri}))
sources(chunks) ==
    LET webs == SelectSeq(chunks, LAMBDA chunk : chunk.web # <<>>)
    IN  [i \in 1..Len(webs) |->
            [title |-> IF Falsy(webs[i].web[1].title) THEN GenericLabel ELSE webs[i].web[1].title,
             uri |-> webs[i].web[1].uri]]

\* a quiz item of the body: the options and the answer as the backend wrote them
QuizItems == {[options |-> o, answer |-> a] : o \in {<<>>, <<"a", "b">>}, a \in {"a", "c"}}

\* the fields the call writes itself, after the spread of the parsed body
Synthesized == {"id", "timestamp", "sources"}

\* the value the parsed body holds under field f: the quiz as the backend wrote
\* it, an id, a timestamp or a citation list of the backend's own making, and
\* the field's text otherwise
BodyValue(r, f) ==
    IF f = "quiz" THEN r.quiz
    ELSE IF f = "sources" THEN <<[title |-> "Forged", uri |-> "https://b.example/f"]>>
    ELSE IF f \in Synthesized THEN 0 - 9
    ELSE f

\* JSON.parse(resultText): the object of the body's fields (the text "{}" that
\* stands in for a missing body has none)
parsed(r) ==
    [f \in resultText(r.resp).fields \cup (IF r.resp.text.tag = "json" THEN r.extra ELSE {})
        |-> BodyValue(r, f)]

\* an object literal {...o, ...p}: a property written later replaces the one
\* written earlier under the same name
Spread(o, p) == [k \in DOMAIN o \cup DOMAIN p |-> IF k \in DOMAIN p THEN p[k] ELSE o[k]]

\* the call with the literal written as {id, timestamp, sources, ...parsed}
analyze_parsedLast(r, id, t) ==
    LET result == processLectureMedia(r.resp, id, t)
        record == Spread([id |-> id, timestamp |-> t,
                          sources |-> sources(groundingChunks(r.grounding))], parsed(r))
    IN  IF result.ok
        THEN [stage |-> "returned", ok |-> TRUE,
              note |-> <<[id |-> record["id"], timestamp |-> record["timestamp"],
                          fields |-> result.note[1].fields,
                          quiz |-> IF "quiz" \in DOMAIN record THEN record["quiz"] ELSE <<>>,
                          sources |-> record["sources"],
                          record |-> record]>>]
        ELSE [stage |-> "threw", ok |-> FALSE, note |-> <<>>]

\* the record the call returns: {...parsed, id, timestamp, sources}, given as
\* the whole object (record) and as the parts the application reads; quiz is
\* what the body holds under quiz (nothing when the body has no such field)
analyze(r, id, t) ==
    LET result == processLectureMedia(r.resp, id, t)
        record == Spread(parsed(r), [id |-> id, timestamp |-> t,
                                     sources |-> sources(groundingChunks(r.grounding))])
    IN  IF result.ok
        THEN [stage |-> "returned", ok |-> TRUE,
              note |-> <<[id |-> record["id"], timestamp |-> record["timestamp"],
                          fields |-> result.note[1].fields,
                          quiz |-> IF "quiz" \in DOMAIN record THEN record["quiz"] ELSE <<>>,
                          sources |-> record["sources"],
                          record |-> record]>>]
        ELSE [stage |-> "threw", ok |-> FALSE, note |-> <<>>]

----------------------------------------------------------------------------
(* The note store: the history state and localStorage *)

\* [note, ...history] throws a TypeError when history is not iterable
SpreadThrows(h) == ~IsArray(h)

SpreadMessage == "history is not iterable"

\* addToHistory persisting the history state it read instead of newHistory
addToHistory_persistStale(note, h, v) ==
    LET newHistory == Take(<<note>> \o h.items, Cap(v))
    IN  [history |-> Arr(newHistory), storage |-> JSONstringify(h.items)]

\* addToHistory putting the new record behind the others
addToHistory_append(note, h, v) ==
    LET newHistory == Take(h.items \o <<note>>, Cap(v))
    IN  [history |-> Arr(newHistory), storage |-> JSONstringify(newHistory)]

\* [note, ...history].slice(0, cap), set as the state and persisted
addToHistory(note, h, v) ==
    LET newHistory == Take(<<note>> \o h.items, Cap(v))
    IN  [history |-> Arr(newHistory), storage |-> JSONstringify(newHistory)]

\* deleteHistoryItem with the comparison of the filter inverted
deleteHistoryItem_keepMatch(id, h) ==
    LET newHistory == SelectSeq(h.items, LAMBDA item : item.id = id)
    IN  [history |-> Arr(newHistory), storage |-> JSONstringify(newHistory)]

\* history.filter(item => item.id !== id), set as the state and persisted
deleteHistoryItem(id, h) ==
    LET newHistory == SelectSeq(h.items, LAMBDA item : item.id # id)
    IN  [history |-> Arr(newHistory), storage |-> JSONstringify(newHistory)]

\* clearAllHistory writing an empty array under the key instead of removing it
clearAllHistory_keepKey == [history |-> Arr(<<>>), storage |-> JSONstringify(<<>>)]

\* setHistory([]) and localStorage.removeItem
clearAllHistory == [history |-> Arr(<<>>), storage |-> Absent]

\* the load effect: getItem gives null for an absent key (nothing is done);
\* build 1 swallows what JSON.parse throws, build 2 does not catch it
LoadThrows(st, v) == v = 2 /\ st.tag # "absent" /\ ParseThrows(st)

LoadHistory(st, h) ==
    IF st.tag = "absent" \/ ParseThrows(st) THEN h ELSE JSONparse(st)

----------------------------------------------------------------------------
(* What is on screen *)

Views == {"HOME", "HISTORY", "SETTINGS"}

\* the chain of conditions in the return of build 1's App
BranchV1(st, nt) ==
    IF st = "PROCESSING" THEN "processing"
    ELSE IF st = "RECORDING" THEN "recording"
    ELSE IF st = "ERROR" THEN "error"
    ELSE IF st = "COMPLETED" /\ nt # <<>> THEN "completed"
    ELSE "view"

\* build 2's return is not in the source: the same five screens, one per status
BranchV2(st, nt) ==
    IF st = "PROCESSING" THEN "processing"
    ELSE IF st = "RECORDING" THEN "recording"
    ELSE IF st = "ERROR" THEN "error"
    ELSE IF st = "COMPLETED" /\ nt # <<>> THEN "completed"
    ELSE "view"

Branch(v, st, nt) == IF v = 1 THEN BranchV1(st, nt) ELSE BranchV2(st, nt)

Screen == Branch(version, status, notes)

\* renderHistory calls history.map, which an object parsed from {} does not have:
\* the render throws and React unmounts the application
RenderThrows(v, st, nt, vw, h) ==
    Branch(v, st, nt) = "view" /\ vw = "HISTORY" /\ ~IsArray(h)

RenderPhase(v, st, nt, vw, h) ==
    IF RenderThrows(v, st, nt, vw, h) THEN "crashed" ELSE "running"

\* the cards of the history the user may pick: the first and the last
Pick(h) == {i \in 1..Len(h.items) : i = 1 \/ i = Len(h.items)}

Op(name, id) == [op |-> name, id |-> id]

\* for a clear: 1 when the step before it was a clear too, else 0
Repeated == IF lastOp.op = "clear" THEN 1 ELSE 0

RemoveAt(s, i) == SubSeq(s, 1, i - 1) \o SubSeq(s, i + 1, Len(s))

----------------------------------------------------------------------------
(* Initial states: the application is constructed over what earlier sessions
   left in localStorage *)

\* no call of a function looked at on its own is under way
NoReply == [resp |-> [kind |-> "error", text |-> EmptyBody], quiz |-> <<>>,
            grounding |-> [present |-> FALSE, list |-> <<>>], extra |-> {}]

NoOutcome == [stage |-> "none", ok |-> FALSE, note |-> <<>>]

AnalyzeIdle == reply = NoReply /\ outcome = NoOutcome

NoPdfNotes == [summary |-> 0, keyConcepts |-> <<>>,
               sources |-> [present |-> FALSE, list |-> <<>>], transcription |-> 0]

At(at, k) == [at |-> at, k |-> k]

PdfIdle ==
    /\ pdfNotes = NoPdfNotes
    /\ doc = <<>>
    /\ pageCount = 0
    /\ cursorY = 0
    /\ pc = At("none", 0)

NoReader == [state |-> "none", result |-> <<>>]

NotHanded == [stage |-> "none", base64 |-> <<>>, mimeType |-> ""]

EncodeIdle ==
    /\ file = [bytes |-> <<>>, type |-> ""]
    /\ reader = NoReader
    /\ handed = NotHanded

\* a QuizComponent that is not mounted
QuizIdle ==
    /\ quiz = <<>>
    /\ currentIdx = 0
    /\ score = 0
    /\ selected = <<>>
    /\ showResult = FALSE
    /\ pressed = <<>>

\* a PomodoroTimer nobody touches: the state of its useState calls
TimerIdle ==
    /\ timeLeft = FocusSeconds
    /\ isActive = FALSE
    /\ mode = "FOCUS"
    /\ interval = FALSE
    /\ lastEvent = "none"

AuxIdle == AnalyzeIdle /\ PdfIdle /\ EncodeIdle /\ QuizIdle /\ TimerIdle

StoredCounts(v) == {Cap(v)}

InitStorage(v) ==
    {Absent, Garbage, ObjText} \cup {JSONstringify(OldNotes(k)) : k \in StoredCounts(v)}

Init ==
    /\ version \in {1, 2}
    /\ phase = "mounting"
    /\ view = "HOME"
    /\ status = "IDLE"
    /\ notes = <<>>
    /\ history = Arr(<<>>)
    /\ errorMessage = "null"
    /\ isRecording = FALSE
    /\ storage \in InitStorage(version)
    /\ mediaRecorderRef = 0
    /\ recorders = <<>>
    /\ audioChunksRef = <<>>
    /\ micRequests = <<>>
    /\ jobs = <<>>
    /\ nextId = 0
    /\ now = 0
    /\ used = 0
    /\ lastOp = Op("none", 0)
    /\ AuxIdle

----------------------------------------------------------------------------
(* Actions *)

\* useEffect(() => { ... }, []): the load of the history on mount
Load ==
    /\ phase = "mounting"
    /\ history' = IF LoadThrows(storage, version) THEN history ELSE LoadHistory(storage, history)
    /\ phase' = IF LoadThrows(storage, version)
                THEN "crashed"
                ELSE RenderPhase(version, status, notes, view, history')
    /\ lastOp' = Op("none", 0)
    /\ UNCHANGED <<auxVars, audioChunksRef, now, version, view, status, notes, errorMessage, isRecording, storage,
                   mediaRecorderRef, recorders, micRequests, jobs, nextId, used>>

\* Navbar: setView
SetView(v) ==
    /\ phase = "running"
    /\ v # view
    /\ view' = v
    /\ phase' = RenderPhase(version, status, notes, v, history)
    /\ lastOp' = Op("none", 0)
    /\ UNCHANGED <<auxVars, audioChunksRef, now, version, status, notes, history, errorMessage, isRecording, storage,
                   mediaRecorderRef, recorders, micRequests, jobs, nextId, used>>

\* processFile up to reader.readAsDataURL(file); hist is the history of the
\* render whose processFile is called
StartProcessFile(hist) ==
    /\ status' = "PROCESSING"
    /\ errorMessage' = "null"
    /\ jobs' = Append(jobs, [stage |-> "reading", hist |-> hist])

\* the file input of renderHome: onChange calls processFile
Upload ==
    /\ phase = "running"
    /\ Screen = "view" /\ view = "HOME"
    /\ used < MaxActions
    /\ StartProcessFile(history)
    /\ used' = used + 1
    /\ phase' = RenderPhase(version, status', notes, view, history)
    /\ lastOp' = Op("none", 0)
    /\ UNCHANGED <<auxVars, audioChunksRef, now, version, view, notes, history, isRecording, storage,
                   mediaRecorderRef, recorders, micRequests, nextId>>

\* the Record button of renderHome: startRecording up to await getUserMedia
ClickRecord ==
    /\ phase = "running"
    /\ Screen = "view" /\ view = "HOME"
    /\ used < MaxActions
    /\ micRequests' = Append(micRequests, [hist |-> history])
    /\ used' = used + 1
    /\ lastOp' = Op("none", 0)
    /\ UNCHANGED <<auxVars, audioChunksRef, now, version, phase, view, status, notes, history, errorMessage, isRecording,
                   storage, mediaRecorderRef, recorders, jobs, nextId>>

\* getUserMedia resolves: the rest of startRecording's try block
MicGranted(i) ==
    /\ phase = "running"
    /\ i \in 1..Len(micRequests)
    /\ micRequests' = RemoveAt(micRequests, i)
    /\ recorders' = Append(recorders,
                           [state |-> "recording", stopEvent |-> FALSE,
                            hist |-> micRequests[i].hist, handed |-> 0])
    /\ mediaRecorderRef' = Len(recorders) + 1
    /\ audioChunksRef' = <<>>
    /\ isRecording' = TRUE
    /\ status' = "RECORDING"
    /\ phase' = RenderPhase(version, status', notes, view, history)
    /\ lastOp' = Op("none", 0)
    /\ UNCHANGED <<auxVars, now, version, view, notes, history, errorMessage, storage, jobs, nextId, used>>

MicMessage(v) == IF v = 1 THEN "Microphone access denied." ELSE "Mic error"

\* getUserMedia rejects: startRecording's catch block
MicDenied(i) ==
    /\ phase = "running"
    /\ i \in 1..Len(micRequests)
    /\ micRequests' = RemoveAt(micRequests, i)
    /\ errorMessage' = MicMessage(version)
    /\ lastOp' = Op("micFail", 0)
    /\ UNCHANGED <<auxVars, audioChunksRef, now, version, phase, view, status, notes, history, isRecording, storage,
                   mediaRecorderRef, recorders, jobs, nextId, used>>

\* whether stopRecording calls stop() on the recorder of the ref
StopCalled(v) ==
    /\ mediaRecorderRef # 0
    /\ IF v = 1 THEN isRecording ELSE recorders[mediaRecorderRef].state # "inactive"

\* the Stop button of the recording screen: stopRecording.  stop() makes the
\* recorder inactive and queues its stop event; on an inactive recorder it throws
ClickStop ==
    /\ phase = "running"
    /\ Screen = "recording"
    /\ LET called == StopCalled(version)
           throws == called /\ recorders[mediaRecorderRef].state = "inactive"
       IN  /\ recorders' = IF called /\ ~throws
                           THEN [recorders EXCEPT ![mediaRecorderRef] =
                                    [@ EXCEPT !.state = "inactive", !.stopEvent = TRUE]]
                           ELSE recorders
           /\ isRecording' = IF throws \/ (version = 1 /\ ~called) THEN isRecording ELSE FALSE
    /\ lastOp' = Op("none", 0)
    /\ UNCHANGED <<auxVars, audioChunksRef, now, version, phase, view, status, notes, history, errorMessage, storage,
                   mediaRecorderRef, micRequests, jobs, nextId, used>>

\* the task stop() queued: the recorder fires dataavailable with all it
\* captured (start() was given no timeslice), which ondataavailable pushes on
\* the array of the ref, and then stop, whose handler makes a blob of that
\* array and calls processFile of the render that started the recorder
RecorderOnStop(i) ==
    /\ phase = "running"
    /\ i \in 1..Len(recorders)
    /\ recorders[i].stopEvent
    /\ recorders' = [recorders EXCEPT ![i] =
                        [@ EXCEPT !.stopEvent = FALSE, !.handed = @ + 1]]
    /\ audioChunksRef' = Append(audioChunksRef, i)
    /\ StartProcessFile(recorders[i].hist)
    /\ phase' = RenderPhase(version, status', notes, view, history)
    /\ lastOp' = Op("none", 0)
    /\ UNCHANGED <<auxVars, now, version, view, notes, history, isRecording, storage,
                   mediaRecorderRef, micRequests, nextId, used>>

ReadMessage == "Cannot read properties of null (reading 'split')"

\* reader.onloadend, up to the await of processLectureMedia.  When the read
\* failed reader.result is null and split throws: build 2 catches it, in build 1
\* the async callback's promise rejects with nobody listening
ReaderLoadEnd(j, ok) ==
    /\ phase = "running"
    /\ j \in 1..Len(jobs)
    /\ jobs[j].stage = "reading"
    /\ IF ok
       THEN /\ jobs' = [jobs EXCEPT ![j] = [@ EXCEPT !.stage = "analysing"]]
            /\ lastOp' = Op("none", 0)
            /\ UNCHANGED <<status, errorMessage, phase>>
       ELSE /\ jobs' = RemoveAt(jobs, j)
            /\ lastOp' = Op("readFail", 0)
            /\ IF version = 2
               THEN /\ errorMessage' = ReadMessage
                    /\ status' = "ERROR"
               ELSE UNCHANGED <<status, errorMessage>>
            /\ phase' = RenderPhase(version, status', notes, view, history)
    /\ UNCHANGED <<auxVars, audioChunksRef, now, version, view, notes, history, isRecording, storage,
                   mediaRecorderRef, recorders, micRequests, nextId, used>>

\* processFile after the await: setNotes(result), addToHistory(result) with the
\* history of the render the job was started in, setStatus(COMPLETED)
Complete(j, note) ==
    LET hist == jobs[j].hist
        saved == addToHistory(note, hist, version)
    IN  /\ notes' = <<note>>
        /\ IF SpreadThrows(hist)
           THEN /\ UNCHANGED <<history, storage>>
                /\ lastOp' = Op("insertFail", note.id)
                /\ IF version = 2
                   THEN /\ errorMessage' = SpreadMessage
                        /\ status' = "ERROR"
                   ELSE UNCHANGED <<status, errorMessage>>
           ELSE /\ history' = saved.history
                /\ storage' = saved.storage
                /\ status' = "COMPLETED"
                /\ lastOp' = Op("insert", note.id)
                /\ UNCHANGED errorMessage

\* processFile when processLectureMedia rejects: the catch of build 2; build 1
\* has none around the await
Fail(message) ==
    /\ IF version = 2
       THEN /\ errorMessage' = message
            /\ status' = "ERROR"
       ELSE UNCHANGED <<status, errorMessage>>
    /\ UNCHANGED <<notes, history, storage>>

\* the backend answers job j with resp: the rest of processLectureMedia and of
\* the onloadend callback
AnalysisSettle(j, resp) ==
    /\ phase = "running"
    /\ j \in 1..Len(jobs)
    /\ jobs[j].stage = "analysing"
    /\ \E tick \in Ticks(now) :
          LET result == processLectureMedia(resp, nextId + 1, now + tick)
          IN  IF result.ok
              THEN /\ nextId' = nextId + 1
                   /\ now' = now + tick
                   /\ Complete(j, result.note[1])
              ELSE /\ nextId' = nextId
                   /\ now' = now
                   /\ Fail(result.message)
                   /\ lastOp' = Op(IF resp.kind = "error" THEN "backendError" ELSE "parseError", 0)
    /\ jobs' = RemoveAt(jobs, j)
    /\ phase' = RenderPhase(version, status', notes', view, history')
    /\ UNCHANGED <<auxVars, version, view, isRecording, mediaRecorderRef, recorders,
                   audioChunksRef, micRequests, used>>

\* the x of a history card (build 1)
DeleteItem(i) ==
    /\ phase = "running"
    /\ version = 1
    /\ Screen = "view" /\ view = "HISTORY"
    /\ used < MaxActions
    /\ i \in Pick(history)
    /\ LET saved == deleteHistoryItem(history.items[i].id, history)
       IN  /\ history' = saved.history
           /\ storage' = saved.storage
    /\ used' = used + 1
    /\ lastOp' = Op("remove", history.items[i].id)
    /\ UNCHANGED <<auxVars, audioChunksRef, now, version, phase, view, status, notes, errorMessage, isRecording,
                   mediaRecorderRef, recorders, micRequests, jobs, nextId>>

\* where the clear control is shown: build 1 on the history page when there is a
\* record and on the settings page, build 2 on the history page
ClearShown ==
    /\ Screen = "view"
    /\ IF version = 1
       THEN (view = "HISTORY" /\ Len(history.items) > 0) \/ view = "SETTINGS"
       ELSE view = "HISTORY"

\* clearAllHistory (build 1 asks confirm first) and Reset All (build 2)
ClearAll(confirmed) ==
    /\ phase = "running"
    /\ ClearShown
    /\ used < MaxActions
    /\ IF version = 2 \/ confirmed
       THEN /\ history' = clearAllHistory.history
            /\ storage' = clearAllHistory.storage
            /\ lastOp' = Op("clear", Repeated)
       ELSE /\ UNCHANGED <<history, storage>>
            /\ lastOp' = Op("none", 0)
    /\ used' = used + 1
    /\ UNCHANGED <<auxVars, audioChunksRef, now, version, phase, view, status, notes, errorMessage, isRecording,
                   mediaRecorderRef, recorders, micRequests, jobs, nextId>>

\* where history cards can be opened: the history page, and in build 2 the
\* first four cards of the home page
CardShown(i) ==
    /\ Screen = "view"
    /\ IsArray(history)
    /\ i \in Pick(history)
    /\ \/ view = "HISTORY"
       \/ version = 2 /\ view = "HOME" /\ i <= 4

\* View / Review / a recent card: setNotes(item); setStatus(COMPLETED)
ViewItem(i) ==
    /\ phase = "running"
    /\ CardShown(i)
    /\ used < MaxActions
    /\ notes' = <<history.items[i]>>
    /\ status' = "COMPLETED"
    /\ used' = used + 1
    /\ lastOp' = Op("none", 0)
    /\ UNCHANGED <<auxVars, audioChunksRef, now, version, phase, view, history, errorMessage, isRecording, storage,
                   mediaRecorderRef, recorders, micRequests, jobs, nextId>>

\* reset clearing the note and the message without setting the status
Reset_keepStatus ==
    /\ phase = "running"
    /\ version = 1
    /\ Screen \in {"error", "completed"}
    /\ status' = status
    /\ notes' = <<>>
    /\ errorMessage' = "null"
    /\ view' = "HOME"
    /\ lastOp' = Op("none", 0)
    /\ UNCHANGED <<auxVars, audioChunksRef, now, version, phase, history, isRecording, storage, mediaRecorderRef,
                   recorders, micRequests, jobs, nextId, used>>

\* build 1: reset, the button of the error screen and of the note screen
Reset ==
    /\ phase = "running"
    /\ version = 1
    /\ Screen \in {"error", "completed"}
    /\ status' = "IDLE"
    /\ notes' = <<>>
    /\ errorMessage' = "null"
    /\ view' = "HOME"
    /\ lastOp' = Op("none", 0)
    /\ UNCHANGED <<auxVars, audioChunksRef, now, version, phase, history, isRecording, storage, mediaRecorderRef,
                   recorders, micRequests, jobs, nextId, used>>

\* build 2: the x of renderCompleted, setStatus(IDLE)
CloseNote ==
    /\ phase = "running"
    /\ version = 2
    /\ Screen = "completed"
    /\ status' = "IDLE"
    /\ phase' = RenderPhase(version, status', notes, view, history)
    /\ lastOp' = Op("none", 0)
    /\ UNCHANGED <<auxVars, audioChunksRef, now, version, view, notes, history, errorMessage, isRecording, storage,
                   mediaRecorderRef, recorders, micRequests, jobs, nextId, used>>

\* build 2: the recovery action of the error screen, back to idle
Recover ==
    /\ phase = "running"
    /\ version = 2
    /\ Screen = "error"
    /\ status' = "IDLE"
    /\ phase' = RenderPhase(version, status', notes, view, history)
    /\ lastOp' = Op("none", 0)
    /\ UNCHANGED <<auxVars, audioChunksRef, now, version, view, notes, history, errorMessage, isRecording, storage,
                   mediaRecorderRef, recorders, micRequests, jobs, nextId, used>>

Next ==
    \/ Load
    \/ \E v \in Views : SetView(v)
    \/ Upload
    \/ ClickRecord
    \/ \E i \in 1..MaxActions : MicGranted(i)
    \/ \E i \in 1..MaxActions : MicDenied(i)
    \/ ClickStop
    \/ \E i \in 1..MaxActions : RecorderOnStop(i)
    \/ \E j \in 1..MaxActions, ok \in BOOLEAN : ReaderLoadEnd(j, ok)
    \/ \E j \in 1..MaxActions, resp \in Responses : AnalysisSettle(j, resp)
    \/ \E i \in Pick(history) : DeleteItem(i)
    \/ \E c \in BOOLEAN : ClearAll(c)
    \/ \E i \in Pick(history) : ViewItem(i)
    \/ Reset
    \/ CloseNote
    \/ Recover

Spec == Init /\ [][Next]_vars

----------------------------------------------------------------------------
(* The note store on its own: insert, remove and clear called with any record
   and any id, each call reading the store as it is *)

StoreIds == 1..MaxStoreId

\* ids remove is called with: inserted ones, a saved one, and one no record has
RemoveIds == StoreIds \cup {0 - 1, 0}

StoreInit ==
    /\ version \in {1, 2}
    /\ phase = "running"
    /\ view = "HISTORY"
    /\ status = "IDLE"
    /\ notes = <<>>
    /\ \E k \in {0, 2} :
          /\ history = Arr(OldNotes(k))
          /\ storage = IF k = 0 THEN Absent ELSE JSONstringify(OldNotes(k))
    /\ errorMessage = "null"
    /\ isRecording = FALSE
    /\ mediaRecorderRef = 0
    /\ recorders = <<>>
    /\ audioChunksRef = <<>>
    /\ micRequests = <<>>
    /\ jobs = <<>>
    /\ nextId = 0
    /\ now = 0
    /\ used = 0
    /\ lastOp = Op("none", 0)
    /\ AuxIdle

\* one store call: the state and the persisted blob it gives are set
StoreCall(saved, op) ==
    /\ history' = saved.history
    /\ storage' = saved.storage
    /\ used' = used + 1
    /\ lastOp' = op
    /\ UNCHANGED <<auxVars, audioChunksRef, now, version, phase, view, status, notes, errorMessage, isRecording,
                   mediaRecorderRef, recorders, micRequests, jobs, nextId>>

StoreInsert(id) ==
    /\ used < MaxCalls
    /\ StoreCall(addToHistory([id |-> id, timestamp |-> now, fields |-> RequiredFields],
                              history, version),
                 Op("insert", id))

StoreRemove(id) ==
    /\ used < MaxCalls
    /\ StoreCall(deleteHistoryItem(id, history), Op("remove", id))

StoreClear ==
    /\ used < MaxCalls
    /\ StoreCall(clearAllHistory, Op("clear", Repeated))

StoreNext ==
    \/ \E id \in StoreIds : StoreInsert(id)
    \/ \E id \in RemoveIds : StoreRemove(id)
    \/ StoreClear

StoreSpec == StoreInit /\ [][StoreNext]_vars

----------------------------------------------------------------------------
(* One call of processLectureMedia on its own, for any answer of the backend *)

\* the sequences over S of length at most n
SeqUpTo(S, n) == UNION {[1..k -> S] : k \in 0..n}

Groundings ==
    {[present |-> FALSE, list |-> <<>>]}
        \cup {[present |-> TRUE, list |-> l] : l \in SeqUpTo(Chunks, MaxChunks)}

\* extra: the synthesized fields a body names itself, none or each of them
Replies ==
    {[resp |-> r, quiz |-> q, grounding |-> g, extra |-> x] :
        r \in Responses, q \in SeqUpTo(QuizItems, MaxQuiz), g \in Groundings,
        x \in {{}, Synthesized}}

\* the App component left alone while a function is looked at on its own
AppRest ==
    /\ phase = "running"
    /\ view = "HOME"
    /\ status = "IDLE"
    /\ notes = <<>>
    /\ history = Arr(<<>>)
    /\ errorMessage = "null"
    /\ isRecording = FALSE
    /\ storage = Absent
    /\ mediaRecorderRef = 0
    /\ recorders = <<>>
    /\ audioChunksRef = <<>>
    /\ micRequests = <<>>
    /\ jobs = <<>>
    /\ nextId = 0
    /\ now = 0
    /\ used = 0
    /\ lastOp = Op("none", 0)

AppIdle == version = 2 /\ AppRest

AnalyzeInit ==
    /\ AppIdle
    /\ reply \in Replies
    /\ outcome = [stage |-> "called", ok |-> FALSE, note |-> <<>>]
    /\ PdfIdle
    /\ EncodeIdle
    /\ QuizIdle
    /\ TimerIdle

\* the call settles: it returns a record or throws
AnalyzeSettle ==
    /\ outcome.stage = "called"
    /\ outcome' = analyze(reply, 1, 1)
    /\ UNCHANGED <<appVars, quizVars, timerVars, reply, pdfVars, encodeVars>>

AnalyzeNext == AnalyzeSettle

AnalyzeSpec == AnalyzeInit /\ [][AnalyzeNext]_vars

----------------------------------------------------------------------------
(* generatePDF: src/utils/pdfGenerator.ts.  A text is given by the number of
   lines splitTextToSize wraps it to; positions are millimetres from the top
   of the page *)

\* let cursorY = 20, and cursorY = 20 on a new page
PageTop == 20
\* checkPage: cursorY + heightNeeded > 280
PageLimit == 280
\* cursorY += 15 under the title and under the metadata
TitleAdvance == 15
\* cursorY += 7 under a section heading
HeadingAdvance == 7
\* a line of the summary, of a key concept or of a source
LineHeight == 6
\* cursorY += 10 at the end of a section, and under the Transcription heading
SectionGap == 10
\* checkPage(20) before the heading of a section
HeadingNeeds == 20
\* a line of the transcription
TranscriptLineHeight == 5

\* checkPage(heightNeeded): whether a page is added
checkPage(y, heightNeeded) == y + heightNeeded > PageLimit

\* the records generatePDF is called with
PdfInputs ==
    {[summary |-> n, keyConcepts |-> c, sources |-> src, transcription |-> t] :
        n \in {2, MaxSummary},
        c \in SeqUpTo({1, MaxConceptLines}, MaxConcepts),
        src \in {[present |-> FALSE, list |-> <<>>]}
                  \cup {[present |-> TRUE, list |-> l] : l \in SeqUpTo({1, 2}, MaxSources)},
        t \in {1, MaxTranscript - 1, MaxTranscript}}

PdfInit ==
    /\ AppIdle
    /\ AnalyzeIdle
    /\ EncodeIdle
    /\ QuizIdle
    /\ TimerIdle
    /\ pdfNotes \in PdfInputs
    /\ doc = <<>>
    /\ pageCount = 1
    /\ cursorY = PageTop
    /\ pc = At("title", 0)

Block(section, item, page, y, height) ==
    [section |-> section, item |-> item, page |-> page, y |-> y, height |-> height]

\* if (notes.sources && notes.sources.length > 0)
HasSources == pdfNotes.sources.present /\ Len(pdfNotes.sources.list) > 0

AfterConcepts == IF HasSources THEN At("sourcesHeading", 0) ELSE At("transcription", 0)

\* if (notes.keyConcepts.length > 0)
AfterSummary ==
    IF Len(pdfNotes.keyConcepts) > 0 THEN At("conceptsHeading", 0) ELSE AfterConcepts

\* doc.text(block) at cursorY, then cursorY += advance, with no check before it
DrawHere(section, item, height, advance, next) ==
    /\ doc' = Append(doc, Block(section, item, pageCount, cursorY, height))
    /\ cursorY' = cursorY + advance
    /\ pc' = next
    /\ UNCHANGED <<appVars, quizVars, timerVars, analyzeVars, encodeVars, pdfNotes, pageCount>>

\* checkPage(needed); doc.text(block) at cursorY; cursorY += advance
DrawChecked(section, item, needed, height, advance, next) ==
    LET break == checkPage(cursorY, needed)
        y == IF break THEN PageTop ELSE cursorY
    IN  /\ pageCount' = IF break THEN pageCount + 1 ELSE pageCount
        /\ doc' = Append(doc, Block(section, item, pageCount', y, height))
        /\ cursorY' = y + advance
        /\ pc' = next
        /\ UNCHANGED <<appVars, quizVars, timerVars, analyzeVars, encodeVars, pdfNotes>>

DrawTitle ==
    /\ pc.at = "title"
    /\ DrawHere("Title", 0, TitleAdvance, TitleAdvance, At("metadata", 0))

DrawMetadata ==
    /\ pc.at = "metadata"
    /\ DrawHere("Metadata", 0, TitleAdvance, TitleAdvance, At("summaryHeading", 0))

SummaryHeading ==
    /\ pc.at = "summaryHeading"
    /\ DrawHere("Summary", 0, HeadingAdvance, HeadingAdvance, At("summary", 0))

\* doc.text(summaryLines, margin, cursorY)
DrawSummary ==
    /\ pc.at = "summary"
    /\ DrawHere("Summary", 1, pdfNotes.summary * LineHeight,
                pdfNotes.summary * LineHeight + SectionGap, AfterSummary)

ConceptsHeading ==
    /\ pc.at = "conceptsHeading"
    /\ DrawChecked("Key Concepts", 0, HeadingNeeds, HeadingAdvance, HeadingAdvance,
                   At("concept", 1))

\* one turn of keyConcepts.forEach; after the last one cursorY += 10
DrawConcept ==
    /\ pc.at = "concept"
    /\ LET lines == pdfNotes.keyConcepts[pc.k]
           last == pc.k = Len(pdfNotes.keyConcepts)
       IN  DrawChecked("Key Concepts", pc.k, lines * LineHeight, lines * LineHeight,
                       lines * LineHeight + (IF last THEN SectionGap ELSE 0),
                       IF last THEN AfterConcepts ELSE At("concept", pc.k + 1))

SourcesHeading ==
    /\ pc.at = "sourcesHeading"
    /\ DrawChecked("Sources", 0, HeadingNeeds, HeadingAdvance, HeadingAdvance, At("source", 1))

\* one turn of sources.forEach; after the last one cursorY += 10
DrawSource ==
    /\ pc.at = "source"
    /\ LET lines == pdfNotes.sources.list[pc.k]
           last == pc.k = Len(pdfNotes.sources.list)
       IN  DrawChecked("Sources", pc.k, lines * LineHeight, lines * LineHeight,
                       lines * LineHeight + (IF last THEN SectionGap ELSE 0),
                       IF last THEN At("transcription", 0) ELSE At("source", pc.k + 1))

\* the Transcription heading drawn where the cursor is, a page added only when
\* the heading does not fit
TranscriptionHeading_noNewPage ==
    /\ pc.at = "transcription"
    /\ DrawChecked("Transcription", 0, HeadingNeeds, SectionGap, SectionGap, At("line", 1))

\* doc.addPage(); cursorY = 20; the heading; cursorY += 10
TranscriptionHeading ==
    /\ pc.at = "transcription"
    /\ pageCount' = pageCount + 1
    /\ doc' = Append(doc, Block("Transcription", 0, pageCount', PageTop, SectionGap))
    /\ cursorY' = PageTop + SectionGap
    /\ pc' = At("line", 1)
    /\ UNCHANGED <<appVars, quizVars, timerVars, analyzeVars, encodeVars, pdfNotes>>

AfterLine == IF pc.k = pdfNotes.transcription THEN At("save", 0) ELSE At("line", pc.k + 1)

\* a turn of transcriptLines.forEach that draws nothing when checkPage added a page
DrawLine_skipOnBreak ==
    /\ pc.at = "line"
    /\ IF checkPage(cursorY, TranscriptLineHeight)
       THEN /\ pageCount' = pageCount + 1
            /\ cursorY' = PageTop
            /\ pc' = AfterLine
            /\ UNCHANGED <<appVars, quizVars, timerVars, analyzeVars, encodeVars, pdfNotes, doc>>
       ELSE DrawChecked("Transcription", pc.k, TranscriptLineHeight, TranscriptLineHeight,
                        TranscriptLineHeight, AfterLine)

\* one turn of transcriptLines.forEach: checkPage(5); the line; cursorY += 5
DrawLine ==
    /\ pc.at = "line"
    /\ DrawChecked("Transcription", pc.k, TranscriptLineHeight, TranscriptLineHeight,
                   TranscriptLineHeight, AfterLine)

\* doc.save
Save ==
    /\ pc.at = "save"
    /\ pc' = At("done", 0)
    /\ UNCHANGED <<appVars, quizVars, timerVars, analyzeVars, encodeVars, pdfNotes, doc, pageCount, cursorY>>

PdfNext ==
    \/ DrawTitle
    \/ DrawMetadata
    \/ SummaryHeading
    \/ DrawSummary
    \/ ConceptsHeading
    \/ DrawConcept
    \/ SourcesHeading
    \/ DrawSource
    \/ TranscriptionHeading
    \/ DrawLine
    \/ Save

PdfSpec == PdfInit /\ [][PdfNext]_vars

----------------------------------------------------------------------------
(* processFile up to the analysis call: FileReader.readAsDataURL and the split
   of its result (src/App.tsx 162-175, src/types.ts 130-141).  A text is a
   sequence of tokens: the characters of the payload, and the pieces of the
   data URL's head *)

\* the base64 alphabet of the data URL's payload
Alphabet ==
    <<"A", "B", "C", "D", "E", "F", "G", "H", "I", "J", "K", "L", "M", "N", "O", "P",
      "Q", "R", "S", "T", "U", "V", "W", "X", "Y", "Z", "a", "b", "c", "d", "e", "f",
      "g", "h", "i", "j", "k", "l", "m", "n", "o", "p", "q", "r", "s", "t", "u", "v",
      "w", "x", "y", "z", "0", "1", "2", "3", "4", "5", "6", "7", "8", "9", "+", "/">>

Pad == "="

\* base64 of up to three bytes: four characters, padded for one or two bytes
EncodeGroup(b) ==
    LET n == b[1] * 65536 + (IF Len(b) > 1 THEN b[2] * 256 ELSE 0) + (IF Len(b) > 2 THEN b[3] ELSE 0)
        c(k) == Alphabet[((n \div (64 ^ (4 - k))) % 64) + 1]
    IN  IF Len(b) = 1 THEN <<c(1), c(2), Pad, Pad>>
        ELSE IF Len(b) = 2 THEN <<c(1), c(2), c(3), Pad>>
        ELSE <<c(1), c(2), c(3), c(4)>>

RECURSIVE Base64Encode(_)
Base64Encode(bytes) ==
    IF bytes = <<>> THEN <<>>
    ELSE EncodeGroup(SubSeq(bytes, 1, Min(3, Len(bytes))))
            \o Base64Encode(SubSeq(bytes, 4, Len(bytes)))

\* the value of a character of the alphabet
DigitOf(ch) == CHOOSE d \in 0..63 : Alphabet[d + 1] = ch

IsDigit(ch) == \E d \in 0..63 : Alphabet[d + 1] = ch

\* whether a text is base64: groups of four characters, padding at the end only
IsBase64(t) ==
    /\ Len(t) % 4 = 0
    /\ \A i \in 1..Len(t) :
          \/ IsDigit(t[i])
          \/ t[i] = Pad /\ i >= Len(t) - 1 /\ (i = Len(t) - 1 => t[Len(t)] = Pad)

\* the bytes of four characters
DecodeGroup(g) ==
    LET v(k) == IF g[k] = Pad THEN 0 ELSE DigitOf(g[k])
        n == v(1) * 262144 + v(2) * 4096 + v(3) * 64 + v(4)
        all == <<n \div 65536, (n \div 256) % 256, n % 256>>
    IN  IF g[3] = Pad THEN SubSeq(all, 1, 1)
        ELSE IF g[4] = Pad THEN SubSeq(all, 1, 2)
        ELSE all

RECURSIVE DecodeGroups(_)
DecodeGroups(t) ==
    IF t = <<>> THEN <<>>
    ELSE DecodeGroup(SubSeq(t, 1, 4)) \o DecodeGroups(SubSeq(t, 5, Len(t)))

\* what a text decodes to when it is not base64
NotBytes == <<256>>

\* base64 decoding, as the backend does it on inlineData.data
Base64Decode(t) == IF IsBase64(t) THEN DecodeGroups(t) ELSE NotBytes

\* the media type a data URL names for a blob: the blob's type, a generic one
\* when the blob has none
MediaType(type) == IF type = "" THEN "application/octet-stream" ELSE type

\* reader.result after readAsDataURL: data:<media type>;base64,<payload>
DataURL(blob) == <<"data:", MediaType(blob.type), ";base64", ",">> \o Base64Encode(blob.bytes)

\* String.prototype.split: the pieces between the separators
RECURSIVE Split(_, _)
Split(t, sep) ==
    IF t = <<>> THEN << <<>> >>
    ELSE LET rest == Split(Tail(t), sep)
         IN  IF Head(t) = sep
             THEN << <<>> >> \o rest
             ELSE << <<Head(t)>> \o rest[1] >> \o Tail(rest)

\* processFile handing the whole data URL to the analysis call
base64Of_wholeResult(result) == result

\* (reader.result as string).split(',')[1]
base64Of(result) ==
    LET parts == Split(result, ",")
    IN  IF Len(parts) >= 2 THEN parts[2] ELSE <<Undefined>>

\* the MIME type of the analysis call: file.type || 'audio/mpeg' in build 1,
\* file.type in build 2
mimeTypeOf(blob, v) == IF v = 1 /\ blob.type = "" THEN "audio/mpeg" ELSE blob.type

\* the bytes a blob is made of, and the types the browser gives a chosen file
\* (none for a file it does not know) and startRecording gives its blob
BlobBytes == {0, 65, 255}

BlobTypes == {"", "audio/wav", "application/pdf"}

Blobs == {[bytes |-> b, type |-> t] : b \in SeqUpTo(BlobBytes, MaxBytes), t \in BlobTypes}

EncodeInit ==
    /\ version \in {1, 2}
    /\ AppRest
    /\ AnalyzeIdle
    /\ PdfIdle
    /\ QuizIdle
    /\ TimerIdle
    /\ file \in Blobs
    /\ reader = [state |-> "created", result |-> <<>>]
    /\ handed = [stage |-> "pending", base64 |-> <<>>, mimeType |-> ""]

\* reader.readAsDataURL(file) and the read: it gives the data URL, or fails
\* and leaves the result null
ReadAsDataURL(ok) ==
    /\ reader.state = "created"
    /\ reader' = IF ok THEN [state |-> "done", result |-> DataURL(file)]
                  ELSE [state |-> "failed", result |-> <<>>]
    /\ UNCHANGED <<appVars, quizVars, timerVars, analyzeVars, pdfVars, file, handed>>

\* reader.onloadend up to the call of processLectureMedia; on a null result
\* split throws and nothing is handed over
LoadEnd ==
    /\ reader.state \in {"done", "failed"}
    /\ handed.stage = "pending"
    /\ handed' = IF reader.state = "done"
                  THEN [stage |-> "handed", base64 |-> base64Of(reader.result),
                        mimeType |-> mimeTypeOf(file, version)]
                  ELSE [stage |-> "threw", base64 |-> <<>>, mimeType |-> ""]
    /\ UNCHANGED <<appVars, quizVars, timerVars, analyzeVars, pdfVars, file, reader>>

EncodeNext ==
    \/ \E ok \in BOOLEAN : ReadAsDataURL(ok)
    \/ LoadEnd

EncodeSpec == EncodeInit /\ [][EncodeNext]_vars

----------------------------------------------------------------------------
(* QuizComponent of src/App.tsx on its own, for any non-empty quiz it is
   given; quiz[currentIdx] is quiz[currentIdx + 1] here *)

\* the questions of a quiz: the answer is one of the options or not, and an
\* option may be the empty text
Questions ==
    {[options |-> o, answer |-> a] : o \in {<<"a", "b">>, <<"", "c">>}, a \in {"a", "c"}}

QuizInit ==
    /\ AppIdle
    /\ AnalyzeIdle
    /\ PdfIdle
    /\ EncodeIdle
    /\ TimerIdle
    /\ quiz \in SeqUpTo(Questions, MaxQuiz) \ {<<>>}
    /\ currentIdx = 0
    /\ score = 0
    /\ selected = <<>>
    /\ showResult = FALSE
    /\ pressed = <<>>

\* an option button of the question view: setSelected(opt)
Select(opt) ==
    /\ ~showResult
    /\ \E i \in 1..Len(quiz[currentIdx + 1].options) : quiz[currentIdx + 1].options[i] = opt
    /\ selected' = <<opt>>
    /\ UNCHANGED <<appVars, analyzeVars, pdfVars, encodeVars, timerVars,
                   quiz, currentIdx, score, showResult, pressed>>

\* handleNext adding to the score whatever was selected
handleNext_countsAll ==
    /\ score' = score + 1
    /\ IF currentIdx < Len(quiz) - 1
       THEN /\ currentIdx' = currentIdx + 1
            /\ selected' = <<>>
            /\ UNCHANGED showResult
       ELSE /\ showResult' = TRUE
            /\ UNCHANGED <<currentIdx, selected>>

\* handleNext
handleNext ==
    /\ score' = IF selected = <<quiz[currentIdx + 1].answer>> THEN score + 1 ELSE score
    /\ IF currentIdx < Len(quiz) - 1
       THEN /\ currentIdx' = currentIdx + 1
            /\ selected' = <<>>
            /\ UNCHANGED showResult
       ELSE /\ showResult' = TRUE
            /\ UNCHANGED <<currentIdx, selected>>

\* the Next Question / Finish button of the question view; disabled={!selected}
\* disables it for null and for the empty text
PressNext ==
    /\ ~showResult
    /\ selected # <<>> /\ selected[1] # ""
    /\ handleNext
    /\ pressed' = Append(pressed, selected[1])
    /\ UNCHANGED <<appVars, analyzeVars, pdfVars, encodeVars, timerVars, quiz>>

\* Try Again of the result view
TryAgain ==
    /\ showResult
    /\ showResult' = FALSE
    /\ currentIdx' = 0
    /\ score' = 0
    /\ selected' = <<>>
    /\ pressed' = <<>>
    /\ UNCHANGED <<appVars, analyzeVars, pdfVars, encodeVars, timerVars, quiz>>

QuizNext ==
    \/ \E opt \in {"", "a", "b", "c"} : Select(opt)
    \/ PressNext
    \/ TryAgain

QuizSpec == QuizInit /\ [][QuizNext]_vars

----------------------------------------------------------------------------
(* PomodoroTimer of src/App.tsx on its own.  The effect runs after every
   render in which isActive, timeLeft or mode changed: its cleanup clears the
   interval of the render before, and its body installs a new one or, at
   timeLeft 0, queues the three state updates and shows the alert, which
   blocks the page until it is dismissed *)

\* mode === 'FOCUS' ? 25 * 60 : 5 * 60
FullTime(m) == IF m = "FOCUS" THEN FocusSeconds ELSE BreakSeconds

\* mode === 'FOCUS' ? 'BREAK' : 'FOCUS'
NextMode(m) == IF m = "FOCUS" THEN "BREAK" ELSE "FOCUS"

\* the first branch of the effect: whether it installs the interval
IntervalSet(active, t) == active /\ t > 0

TimerInit ==
    /\ AppIdle
    /\ AnalyzeIdle
    /\ PdfIdle
    /\ EncodeIdle
    /\ QuizIdle
    /\ TimerIdle

\* the interval fires: setTimeLeft(t => t - 1), then the render and its effect
Tick ==
    /\ interval
    /\ timeLeft' = timeLeft - 1
    /\ interval' = IntervalSet(isActive, timeLeft')
    /\ lastEvent' = "tick"
    /\ UNCHANGED <<appVars, analyzeVars, pdfVars, encodeVars, quizVars, isActive, mode>>

\* the second branch of the effect, at timeLeft 0: the updates it queued are
\* applied when the alert is dismissed, then the render and its effect
Finish ==
    /\ ~IntervalSet(isActive, timeLeft)
    /\ timeLeft = 0
    /\ isActive' = FALSE
    /\ mode' = NextMode(mode)
    /\ timeLeft' = FullTime(NextMode(mode))
    /\ interval' = IntervalSet(isActive', timeLeft')
    /\ lastEvent' = "finish"
    /\ UNCHANGED <<appVars, analyzeVars, pdfVars, encodeVars, quizVars>>

\* the Start / Pause button: setIsActive(!isActive); no button can be pressed
\* while the alert is shown
Toggle ==
    /\ timeLeft # 0
    /\ isActive' = ~isActive
    /\ interval' = IntervalSet(isActive', timeLeft)
    /\ lastEvent' = "toggle"
    /\ UNCHANGED <<appVars, analyzeVars, pdfVars, encodeVars, quizVars, timeLeft, mode>>

\* the Reset button setting the focus duration whatever the mode
TimerReset_alwaysFocus ==
    /\ timeLeft # 0
    /\ timeLeft' = FocusSeconds
    /\ isActive' = FALSE
    /\ interval' = IntervalSet(isActive', timeLeft')
    /\ lastEvent' = "reset"
    /\ UNCHANGED <<appVars, analyzeVars, pdfVars, encodeVars, quizVars, mode>>

\* the Reset button: setTimeLeft(mode === 'FOCUS' ? 25 * 60 : 5 * 60);
\* setIsActive(false)
TimerReset ==
    /\ timeLeft # 0
    /\ timeLeft' = FullTime(mode)
    /\ isActive' = FALSE
    /\ interval' = IntervalSet(isActive', timeLeft')
    /\ lastEvent' = "reset"
    /\ UNCHANGED <<appVars, analyzeVars, pdfVars, encodeVars, quizVars, mode>>

TimerNext ==
    \/ Tick
    \/ Finish
    \/ Toggle
    \/ TimerReset

TimerSpec == TimerInit /\ [][TimerNext]_vars

----------------------------------------------------------------------------
(* Properties *)

HasAllFields(r) == RequiredFields \subseteq r.fields

Items(h) == {h.items[i] : i \in 1..Len(h.items)}

\* what the persisted blob deserializes to, an absent key being the empty sequence
Persisted == IF storage.tag = "absent" THEN Arr(<<>>) ELSE JSONparse(storage)

\* a body the claim C1 says analyze must reject
Deficient(resp) ==
    resp.kind = "ok" /\ (resp.text.tag # "json" \/ ~(RequiredFields \subseteq resp.text.fields))

AnalysingJobs == {j \in 1..Len(jobs) : jobs[j].stage = "analysing"}

Recording == {i \in 1..Len(recorders) : recorders[i].state = "recording"}

\* C1: analyze is all-or-nothing: a body that is empty, not JSON or lacks a
\* required field makes the call fail (no note is set, nothing is inserted), so
\* no record missing a required field is displayed, held in the store or persisted.
C1_AllOrNothing ==
    /\ [][\A j \in 1..Len(jobs), resp \in Responses :
            (AnalysisSettle(j, resp) /\ Deficient(resp))
                => (notes' = notes /\ history' = history /\ storage' = storage)]_vars
    /\ [](/\ \A r \in Items([items |-> notes]) : HasAllFields(r)
          /\ \A r \in Items(history) : HasAllFields(r)
          /\ \A r \in Items(Persisted) : HasAllFields(r))

\* C2: when the backend call raises an error the analysis gives no record and
\* the store, in memory and persisted, is what it was before that step.
C2_BackendErrorKeepsStore ==
    [][\A j \in 1..Len(jobs), resp \in Responses :
          (AnalysisSettle(j, resp) /\ resp.kind = "error")
              => (history' = history /\ storage' = storage /\ notes' = notes /\ nextId' = nextId)]_vars

\* a backend error has been handled while the store held records
C2_Witness == lastOp.op = "backendError" /\ Len(history.items) > 0

\* C3: the store never holds more than cap records, and an insert into a store
\* holding cap records drops only the oldest one: the new record is followed by
\* the first cap - 1 records the store held.
C3_Capacity ==
    /\ [](Len(history.items) <= Cap(version))
    /\ [][(lastOp'.op = "insert" /\ Len(history.items) = Cap(version))
            => history'.items = <<notes'[1]>> \o SubSeq(history.items, 1, Cap(version) - 1)]_vars

\* C4: every insert is one read-modify-persist step over the store's contents at
\* the moment of the insert: the store after it is the new record followed by
\* what the store held, cut to the capacity; and that is what is persisted.
C4_AtomicMutation ==
    [][lastOp'.op = "insert"
          => /\ history' = Arr(Take(<<notes'[1]>> \o history.items, Cap(version)))
             /\ Persisted' = history']_vars

\* C5: after each mutating store call (insert, remove, clear) the persisted blob
\* deserializes to exactly the in-memory sequence.
C5_PersistedMatchesMemory ==
    lastOp.op \in {"insert", "remove", "clear"} => (~ParseThrows(storage) \/ storage.tag = "absent") /\ Persisted = history

\* an insert that truncated to the capacity has returned
C5_Witness == lastOp.op = "insert" /\ Len(history.items) = Cap(version) /\ storage.tag = "json-array"

\* C6: every failure of capture, of reading or of the analysis puts the status
\* at ERROR with a message, and the recovery action of the error screen returns
\* the status to IDLE.
C6_FailuresSurface ==
    /\ [][lastOp'.op \in {"micFail", "readFail", "backendError", "parseError"}
            => (status' = "ERROR" /\ errorMessage' # "null")]_vars
    /\ [][(status = "ERROR" /\ (Reset \/ Recover)) => status' = "IDLE"]_vars

\* C7: at most one analysis call is in flight at any time.
C7_SingleAnalysis == Cardinality(AnalysingJobs) <= 1

\* C8: the load never makes startup fail and leaves the in-memory store a
\* sequence of records: the empty one when the key is absent or its content corrupt.
C8_LoadSafe ==
    /\ [](phase # "crashed" /\ IsArray(history))
    /\ [][Load => (storage.tag \notin {"json-array"} => history' = Arr(<<>>))]_vars

\* C9: at most one MediaRecorder is recording at any time.
C9_OneRecorder == Cardinality(Recording) <= 1


\* the positions of h whose record has another id than id
Kept(id, h) == {i \in 1..Len(h.items) : h.items[i].id # id}

Ids(h) == {r.id : r \in Items(h)}

\* C13: no two records of the store have the same id (the store holds as many
\* ids as records), and the id analyze gives
\* a record is none of the ids it gave before (1..nextId), whether their
\* records are still in the store or were removed, evicted or cleared, and
\* none of the ids in the store or in the persisted blob.
C13_UniqueIds ==
    /\ [](Cardinality(Ids(history)) = Len(history.items))
    /\ [][lastOp'.op \in {"insert", "insertFail"}
            => /\ lastOp'.id \notin 1..nextId
               /\ lastOp'.id \notin Ids(history) \cup Ids(Persisted)
               /\ notes'[1].id = lastOp'.id]_vars

\* a second record has been inserted into a full store that holds the first
C13_Witness ==
    /\ lastOp = Op("insert", 2)
    /\ Len(history.items) = Cap(version)
    /\ history.items[2].id = 1

\* C19: the store is ordered newest first: of two records the one nearer the
\* head has a timestamp greater than or equal to the other's (stated for every
\* record and the one behind it, which gives it for any two).
C19_NewestFirst ==
    \A i \in 1..(Len(history.items) - 1) :
        history.items[i].timestamp >= history.items[i + 1].timestamp

\* two records made in this session are in the store, the second made at a
\* later clock value than the first, over the records of earlier sessions
C19_Witness ==
    /\ Len(history.items) = Cap(version)
    /\ history.items[1].id = 2
    /\ history.items[2].id = 1
    /\ history.items[1].timestamp > history.items[2].timestamp
    /\ history.items[3].timestamp < history.items[2].timestamp

\* C18: a recorder that was stopped hands one blob to processFile, once, made
\* of the data of that recorder and of no other; and every recorder that is
\* recording is the one stopRecording acts on, so that it can be stopped.
C18_OneBlobPerSession ==
    /\ [][\A i \in 1..Len(recorders) :
            RecorderOnStop(i) => (audioChunksRef' = <<i>> /\ recorders[i].handed = 0)]_vars
    /\ [](\A i \in 1..Len(recorders) :
             recorders[i].state = "inactive"
                 => recorders[i].handed + (IF recorders[i].stopEvent THEN 1 ELSE 0) = 1)
    /\ [](\A i \in Recording : i = mediaRecorderRef)

\* C12: in every record analyze returns, each quiz item's answer is one of that
\* item's options.
C12_AnswerAmongOptions ==
    outcome.ok =>
        \A i \in 1..Len(outcome.note[1].quiz) :
            \E k \in 1..Len(outcome.note[1].quiz[i].options) :
                outcome.note[1].quiz[i].options[k] = outcome.note[1].quiz[i].answer

\* the positions of the chunks that carry web metadata
WebAt(chunks) == {i \in 1..Len(chunks) : chunks[i].web # <<>>}

\* C14: the sources of the returned record are the chunks that carry web
\* metadata, in their order, one {title, uri} each: the title is the chunk's,
\* or the generic label when it has none, the uri is the chunk's; chunks
\* without web metadata are skipped, no citations give no sources, and every
\* source has a uri.
C14_SourcesMapped ==
    outcome.ok =>
        LET chunks == IF reply.grounding.present THEN reply.grounding.list ELSE <<>>
            srcs == outcome.note[1].sources
        IN  /\ Len(srcs) = Cardinality(WebAt(chunks))
            /\ \A i \in WebAt(chunks) :
                   LET src == srcs[Cardinality({k \in WebAt(chunks) : k <= i})]
                       web == chunks[i].web[1]
                   IN  /\ src.title = (IF web.title = Undefined THEN GenericLabel ELSE web.title)
                       /\ src.uri = web.uri
            /\ \A i \in 1..Len(srcs) : srcs[i].uri # Undefined

\* the blocks C15 names: the summary's text, the key concepts, the sources and
\* the lines of the transcription
ContentBlocks == {i \in 1..Len(doc) : doc[i].item > 0}

\* C15: no block of content is drawn past the bottom limit of its page: where
\* the space left on the page is less than the block's height, a page was
\* added before the block was drawn.
C15_NothingPastTheLimit ==
    \A i \in ContentBlocks : doc[i].y + doc[i].height <= PageLimit

\* the sections in the order their first block was drawn
Headings ==
    LET first == SelectSeq(doc, LAMBDA b : b.item = 0)
    IN  [i \in 1..Len(first) |-> first[i].section]

\* every block of content follows a block of its own section
ContentUnderItsHeading ==
    \A i \in ContentBlocks : i > 1 /\ doc[i - 1].section = doc[i].section

\* the Transcription heading is at the top of a page no earlier block is on
TranscriptionOnNewPage ==
    \A i \in 1..Len(doc) :
        (doc[i].section = "Transcription" /\ doc[i].item = 0)
            => /\ doc[i].y = PageTop
               /\ \A k \in 1..(i - 1) : doc[k].page < doc[i].page

\* C16 as stated: the sections of every record are Title, Metadata, Summary,
\* Key Concepts, Sources (when present and non-empty), Transcription, in that
\* order, and the Transcription heading is the first block of a new page.
C16_SectionOrder ==
    /\ pc.at = "done"
          => Headings = <<"Title", "Metadata", "Summary", "Key Concepts">>
                            \o (IF HasSources THEN <<"Sources">> ELSE <<>>)
                            \o <<"Transcription">>
    /\ ContentUnderItsHeading
    /\ TranscriptionOnNewPage

\* C16 amended: as C16, with the Key Concepts section emitted only when the
\* record has at least one key concept.
C16_SectionOrderAmended ==
    /\ pc.at = "done"
          => Headings = <<"Title", "Metadata", "Summary">>
                            \o (IF Len(pdfNotes.keyConcepts) > 0 THEN <<"Key Concepts">> ELSE <<>>)
                            \o (IF HasSources THEN <<"Sources">> ELSE <<>>)
                            \o <<"Transcription">>
    /\ ContentUnderItsHeading
    /\ TranscriptionOnNewPage

\* a record with a long summary, no key concept and two sources has been exported
C16_Witness ==
    /\ pc.at = "done"
    /\ pdfNotes.summary = MaxSummary
    /\ Len(pdfNotes.keyConcepts) = 0
    /\ Len(pdfNotes.sources.list) = 2

\* the lines of the transcription drawn so far
LinesDrawn == SelectSeq(doc, LAMBDA b : b.section = "Transcription" /\ b.item > 0)

\* the lines that fit under the heading on the transcription's first page
FirstPageLines == (PageLimit - (PageTop + SectionGap)) \div TranscriptLineHeight

\* C17: the lines of the transcription are drawn once each in their order, each
\* within the limit of its page, right under the line before it or, when that
\* does not fit, at the top of a page added for it; at the end none is missing,
\* and a transcription longer than a page goes over two pages or more.
C17_TranscriptionComplete ==
    /\ \A k \in 1..Len(LinesDrawn) :
          /\ LinesDrawn[k].item = k
          /\ LinesDrawn[k].y + TranscriptLineHeight <= PageLimit
          /\ k > 1 =>
                IF LinesDrawn[k - 1].y + 2 * TranscriptLineHeight <= PageLimit
                THEN /\ LinesDrawn[k].page = LinesDrawn[k - 1].page
                     /\ LinesDrawn[k].y = LinesDrawn[k - 1].y + TranscriptLineHeight
                ELSE /\ LinesDrawn[k].page = LinesDrawn[k - 1].page + 1
                     /\ LinesDrawn[k].y = PageTop
    /\ pc.at = "done"
          => /\ Len(LinesDrawn) = pdfNotes.transcription
             /\ pdfNotes.transcription > FirstPageLines
                   => /\ pageCount >= 2
                      /\ LinesDrawn[Len(LinesDrawn)].page > LinesDrawn[1].page

\* a transcription one line longer than its first page has been exported
C17_Witness ==
    /\ pc.at = "done"
    /\ pdfNotes.transcription = FirstPageLines + 1
    /\ LinesDrawn[pdfNotes.transcription].y = PageTop

\* C20 as stated: the base64 text handed to the analysis call decodes to
\* exactly the bytes of the blob, and the MIME type handed over is the blob's type.
C20_RoundTrip ==
    handed.stage = "handed"
        => /\ Base64Decode(handed.base64) = file.bytes
           /\ handed.mimeType = file.type

\* C20 amended: the base64 text handed to the analysis call decodes to exactly
\* the bytes of the blob, and the MIME type handed over is the blob's type,
\* except that build 1 hands over audio/mpeg for a blob whose type is empty.
C20_RoundTripAmended ==
    handed.stage = "handed"
        => /\ Base64Decode(handed.base64) = file.bytes
           /\ handed.mimeType =
                  (IF version = 1 /\ file.type = "" THEN "audio/mpeg" ELSE file.type)

\* build 1 has handed over a blob of four bytes (a full group and a padded
\* one) that has no type
C20_Witness ==
    /\ handed.stage = "handed"
    /\ version = 1
    /\ file.type = ""
    /\ Len(file.bytes) = 4
    /\ file.bytes[1] = 255
    /\ Len(handed.base64) = 8

\* C21: the record a call returns has the id and the timestamp the client made
\* and the citations mapped from the answer's grounding, whatever the body
\* holds under those names; it has every other field of the body, with the
\* body's value, and no further field.
C21_SynthesizedFieldsWin ==
    outcome.ok =>
        LET record == outcome.note[1].record
            body == parsed(reply)
        IN  /\ record["id"] = 1
            /\ record["timestamp"] = 1
            /\ record["sources"] = sources(groundingChunks(reply.grounding))
            /\ DOMAIN record = DOMAIN body \cup Synthesized
            /\ \A f \in DOMAIN body \ Synthesized : record[f] = BodyValue(reply, f)
            /\ outcome.note[1].id = record["id"]
            /\ outcome.note[1].timestamp = record["timestamp"]
            /\ outcome.note[1].sources = record["sources"]

\* a returned record of a body that names id, timestamp and sources itself,
\* next to its required fields, under an answer with a citation
C21_Witness ==
    /\ outcome.ok
    /\ Synthesized \subseteq DOMAIN parsed(reply)
    /\ RequiredFields \subseteq DOMAIN parsed(reply)
    /\ Len(outcome.note[1].sources) > 0
    /\ reply.quiz # <<>>

\* the captures whose analysis has not settled yet
PendingJobs == {j \in 1..Len(jobs) : jobs[j].stage \in {"reading", "analysing"}}

\* C22: while a recorder started by startRecording is recording the status is
\* RECORDING; no step takes the status away from RECORDING while a recorder
\* goes on recording, and the status does not become RECORDING while the
\* analysis of an earlier capture is pending.
C22_RecordingShown ==
    /\ [](Recording # {} => status = "RECORDING")
    /\ [][(status = "RECORDING" /\ Recording # {} /\ Recording' # {})
            => status' = "RECORDING"]_vars
    /\ [][(status # "RECORDING" /\ status' = "RECORDING") => PendingJobs = {}]_vars

\* C23: whenever the status is COMPLETED a note is displayed: a step that makes
\* the status COMPLETED sets the note in the same step (to the record the
\* analysis returned, or to the record of the opened card), and a step that
\* clears the note does not leave the status COMPLETED.
C23_CompletedHasNote ==
    /\ [](status = "COMPLETED" => notes # <<>>)
    /\ [][(status' = "COMPLETED" /\ status # "COMPLETED")
            => /\ notes' # <<>>
               /\ \/ lastOp'.op = "insert" /\ notes'[1].id = lastOp'.id
                  \/ \E i \in Pick(history) : notes' = <<history.items[i]>>]_vars
    /\ [][(notes # <<>> /\ notes' = <<>>) => status' # "COMPLETED"]_vars

\* build 1, on the home page: the second analysis of the session has just
\* completed and the status is COMPLETED with the record it returned
C23_Witness ==
    /\ version = 1
    /\ status = "COMPLETED"
    /\ lastOp = Op("insert", 2)
    /\ notes # <<>>
    /\ notes[1].id = 2
    /\ view = "HOME"

\* the questions Next was pressed on with the answer selected
Right == {i \in 1..Len(pressed) : pressed[i] = quiz[i].answer}

\* C24: for a non-empty quiz the current index stays within 0..quiz.length-1
\* and the score within 0..quiz.length; the result view appears in the step
\* that presses Next on the last question and in no other; the score shown
\* there is the number of questions on which Next was pressed with the answer
\* selected; Try Again gives index 0, score 0, no selection and the question
\* view.
C24_QuizInRange ==
    /\ [](currentIdx \in 0..(Len(quiz) - 1))
    /\ [](score \in 0..Len(quiz))
    /\ [](score = Cardinality(Right))
    /\ [](showResult => (Len(pressed) = Len(quiz) /\ currentIdx = Len(quiz) - 1))
    /\ [][(showResult' /\ ~showResult)
            <=> (Len(pressed') = Len(pressed) + 1 /\ currentIdx = Len(quiz) - 1)]_vars
    /\ [][(showResult /\ ~showResult')
            => (currentIdx' = 0 /\ score' = 0 /\ selected' = <<>>)]_vars

\* the result view of a quiz of several questions, Next having been pressed
\* with a wrong selection on the first and with the answer on another
C24_Witness ==
    /\ showResult
    /\ Len(quiz) > 1
    /\ score = 1
    /\ pressed[1] # quiz[1].answer

\* C25: timeLeft stays within 0..1500; it decreases only while the timer is
\* active; when it is 0 the next step makes the timer inactive, flips the mode
\* and sets timeLeft to the full duration of the new mode (1500 for FOCUS, 300
\* for BREAK), and the mode changes in no other step; Reset sets timeLeft to
\* the full duration of the current mode and pauses, the mode unchanged.
C25_TimerInRange ==
    /\ [](timeLeft \in 0..1500)
    /\ [][timeLeft' < timeLeft => isActive]_vars
    /\ [][timeLeft = 0
            => (~isActive' /\ mode' # mode /\ mode' \in {"FOCUS", "BREAK"}
                /\ timeLeft' = (IF mode' = "FOCUS" THEN 1500 ELSE 300))]_vars
    /\ [][mode' # mode => timeLeft = 0]_vars
    /\ [][lastEvent' = "reset"
            => (timeLeft' = (IF mode = "FOCUS" THEN 1500 ELSE 300)
                /\ ~isActive' /\ mode' = mode)]_vars

\* a focus session ran down to 0, the timer went over to the break and Reset
\* was pressed in it: the timer is paused at the full duration of the break
C25_Witness ==
    /\ lastEvent = "reset"
    /\ mode = "BREAK"
    /\ timeLeft = 300
    /\ ~isActive

============================================================================
